---- MODULE Spec2Model ----
(***************************************************************************)
(* SprsMat: a mutable sparse matrix in Compressed Sparse Row form          *)
(* (src/src/sparse_mat.rs).  The matrix is built by `zeros` or by the raw  *)
(* constructor `new`, read by `__getitem__` and written by `__setitem__`.  *)
(*                                                                         *)
(* Rust vectors are 0-indexed, TLA+ sequences 1-indexed: At(s, i) reads    *)
(* the Rust element s[i].  f64 values are modelled by small naturals, 0    *)
(* standing for 0.0.  usize arithmetic never comes near 2^64 within the    *)
(* bounds, so `m + 1` and `*x += 1` are modelled without wrap-around.      *)
(* A Rust panic (an index out of range, a bad slice, `todo!()`) is the     *)
(* outcome "panic"; it unwinds out of the call and leaves the object with  *)
(* whatever had been written before it.                                    *)
(***************************************************************************)
EXTENDS Integers, Sequences, FiniteSets

\* Bounds of the model: the shapes and stored entries of the matrices Spec
\* starts from, and the values written.  No further `set` is explored once
\* more than MaxNnz values are stored.
MaxRows == 1
MaxCols == 2
MaxNnz == 1
MaxVal == 1
\* The one shape, and the stored entries, of the matrices SpecWide starts from.
WideRows == 2
WideCols == 3
WideNnz == 3

\* row_ptr, col_indx, vals, shape: the fields of SprsMat.
\* origin: "zeros" or "new", the constructor that built the matrix.
\* fresh:  no __setitem__ call has been made on the matrix yet.
\* last:   the latest call: its name, idx, value, and how it ended ("ok",
\*         "IndexError" or "panic") with the value a get returned.
VARIABLES row_ptr, col_indx, vals, shape, origin, fresh, last

vars == <<row_ptr, col_indx, vals, shape, origin, fresh, last>>
mat  == <<row_ptr, col_indx, vals, shape>>

Values  == 0..MaxVal
\* The i32 indices a caller passes: one negative, every in-range one, and
\* the first out-of-range one.
RowArgs == -1..shape[1]
ColArgs == -1..shape[2]

----------------------------------------------------------------------------
\* Vec helpers

At(s, i) == s[i + 1]

\* Vec::insert(i, x); the caller checks i <= len (else Rust panics).
VecInsert(s, i, x) == SubSeq(s, 1, i) \o <<x>> \o SubSeq(s, i + 1, Len(s))

\* vec[i] = x
VecStore(s, i, x) == [s EXCEPT ![i + 1] = x]

\* &s[a..b]; the caller checks a <= b <= len (else Rust panics).
Slice(s, a, b) == SubSeq(s, a + 1, b)

\* iter().position(|x| x == n): the first 0-based index holding n, or -1.
Position(s, n) ==
  IF \E i \in 1..Len(s) : s[i] = n
  THEN (CHOOSE i \in 1..Len(s) : s[i] = n /\ \A j \in 1..(i - 1) : s[j] # n) - 1
  ELSE -1

\* iter().rposition(|x| x <= n): the last 0-based index holding a value <= n,
\* or -1.
RPosition(s, n) ==
  IF \E i \in 1..Len(s) : s[i] <= n
  THEN (CHOOSE i \in 1..Len(s) :
           s[i] <= n /\ \A j \in (i + 1)..Len(s) : ~(s[j] <= n)) - 1
  ELSE -1

----------------------------------------------------------------------------
\* The struct and its constructors

SprsMat(rp, ci, vs, sh) ==
  [row_ptr |-> rp, col_indx |-> ci, vals |-> vs, shape |-> sh]

\* SprsMat::new: stores its arguments unchecked.
New(rp, ci, vs, sh) == SprsMat(rp, ci, vs, sh)

ZerosShort(m, n) == SprsMat([i \in 1..m |-> 0], <<>>, <<>>, <<m, n>>)

\* SprsMat::zeros: row_ptr = vec![0; m + 1], the rest Default.
Zeros(m, n) == SprsMat([i \in 1..(m + 1) |-> 0], <<>>, <<>>, <<m, n>>)

----------------------------------------------------------------------------
\* Index validation shared by __getitem__ and __setitem__

\* usize::try_from(i32) fails exactly on negatives.
TryFromFails(x) == x < 0

OutOfBoundsStrict(sh, m, n) == sh[1] < m \/ sh[2] < n

\* if self.shape.0 <= m || self.shape.1 <= n
OutOfBounds(sh, m, n) == sh[1] <= m \/ sh[2] <= n

IndexError(M, i, j) ==
  TryFromFails(i) \/ TryFromFails(j) \/ OutOfBounds(M.shape, i, j)

\* self.col_indx[self.row_ptr[m]..self.row_ptr[m + 1]] panics when an index
\* into row_ptr is out of range or the range is not inside col_indx.
RowSlicePanics(M, m) ==
  \/ m + 1 >= Len(M.row_ptr)
  \/ At(M.row_ptr, m) > At(M.row_ptr, m + 1)
  \/ At(M.row_ptr, m + 1) > Len(M.col_indx)

RowSlice(M, m) == Slice(M.col_indx, At(M.row_ptr, m), At(M.row_ptr, m + 1))

----------------------------------------------------------------------------
\* __getitem__

GetItem(M, i, j) ==
  IF IndexError(M, i, j) THEN [outcome |-> "IndexError", ret |-> 0]
  ELSE IF RowSlicePanics(M, i) THEN [outcome |-> "panic", ret |-> 0]
  ELSE LET pos == Position(RowSlice(M, i), j) IN
       IF pos < 0 THEN [outcome |-> "ok", ret |-> 0]
       ELSE IF At(M.row_ptr, i) + pos >= Len(M.vals)
            THEN [outcome |-> "panic", ret |-> 0]
            ELSE [outcome |-> "ok", ret |-> At(M.vals, At(M.row_ptr, i) + pos)]

----------------------------------------------------------------------------
\* __setitem__

\* Some(rel_indx), column found: self.vals[row_ptr[m] + rel_indx] = value
SetOverwrite(M, p, value) ==
  IF p >= Len(M.vals) THEN [outcome |-> "panic", mat |-> M]
  ELSE [outcome |-> "ok", mat |-> [M EXCEPT !.vals = VecStore(M.vals, p, value)]]

\* Some(rel_indx), column not found:
\*   self.vals.insert(p, value); self.row_ptr.insert(p, n);
\*   self.col_indx.iter_mut().for_each(|x| *x += 1);
SetInsert(M, p, n, value) ==
  IF p > Len(M.vals) THEN [outcome |-> "panic", mat |-> M]
  ELSE LET M1 == [M EXCEPT !.vals = VecInsert(M.vals, p, value)] IN
       IF p > Len(M1.row_ptr) THEN [outcome |-> "panic", mat |-> M1]
       ELSE LET M2 == [M1 EXCEPT !.row_ptr = VecInsert(M1.row_ptr, p, n)] IN
            [outcome |-> "ok",
             mat |-> [M2 EXCEPT !.col_indx =
                        [k \in 1..Len(M2.col_indx) |-> M2.col_indx[k] + 1]]]

\* None => todo!()
SetNone(M) == [outcome |-> "panic", mat |-> M]

SetItem(M, i, j, value) ==
  IF IndexError(M, i, j) THEN [outcome |-> "IndexError", mat |-> M]
  ELSE IF RowSlicePanics(M, i) THEN [outcome |-> "panic", mat |-> M]
  ELSE LET rel == RPosition(RowSlice(M, i), j)
           p   == At(M.row_ptr, i) + rel
       IN IF rel < 0 THEN SetNone(M)
          ELSE IF At(M.col_indx, p) = j THEN SetOverwrite(M, p, value)
          ELSE SetInsert(M, p, j, value)

----------------------------------------------------------------------------
\* The CSR layout of section 3: what a caller of `new` is responsible for.

RowPtrOk(M) ==
  /\ Len(M.row_ptr) = M.shape[1] + 1
  /\ At(M.row_ptr, 0) = 0
  /\ \A i \in 0..(M.shape[1] - 1) : At(M.row_ptr, i) <= At(M.row_ptr, i + 1)
  /\ At(M.row_ptr, M.shape[1]) = Len(M.col_indx)

RowsSorted(M) ==
  \A i \in 0..(M.shape[1] - 1) :
    \A k \in At(M.row_ptr, i)..(At(M.row_ptr, i + 1) - 1) :
      /\ k < Len(M.col_indx)
      /\ At(M.col_indx, k) < M.shape[2]
      /\ k + 1 < At(M.row_ptr, i + 1) =>
           (k + 1 < Len(M.col_indx) /\ At(M.col_indx, k) < At(M.col_indx, k + 1))

LayoutOk(M) == RowPtrOk(M) /\ RowsSorted(M) /\ Len(M.vals) = Len(M.col_indx)

RowPtrs(m, nnz) ==
  {rp \in [1..(m + 1) -> 0..nnz] :
     rp[1] = 0 /\ \A i \in 1..m : rp[i] <= rp[i + 1]}

\* The arguments of `new` that have the CSR layout for shape (m, n), with at
\* most nnz stored entries.
Layouts(m, n, nnz) ==
  UNION {{M \in {New(rp, ci, vs, <<m, n>>) :
                   ci \in [1..rp[m + 1] -> 0..(n - 1)],
                   vs \in [1..rp[m + 1] -> Values]} : LayoutOk(M)} :
         rp \in RowPtrs(m, nnz)}

----------------------------------------------------------------------------
\* The state machine

Cur == SprsMat(row_ptr, col_indx, vals, shape)

NoCall == [op |-> "none", row |-> 0, col |-> 0, value |-> 0,
           outcome |-> "ok", ret |-> 0]

Install(M) ==
  /\ row_ptr = M.row_ptr
  /\ col_indx = M.col_indx
  /\ vals = M.vals
  /\ shape = M.shape

InitZeros ==
  /\ \E m \in 0..MaxRows, n \in 0..MaxCols : Install(Zeros(m, n))
  /\ origin = "zeros"

InitNew ==
  /\ \E m \in 0..MaxRows, n \in 0..MaxCols : \E M \in Layouts(m, n, MaxNnz) : Install(M)
  /\ origin = "new"

Init ==
  /\ InitZeros \/ InitNew
  /\ fresh = TRUE
  /\ last = NoCall

Get ==
  \E i \in RowArgs, j \in ColArgs :
    LET r == GetItem(Cur, i, j) IN
    /\ last' = [op |-> "get", row |-> i, col |-> j, value |-> 0,
                outcome |-> r.outcome, ret |-> r.ret]
    /\ UNCHANGED <<row_ptr, col_indx, vals, shape, origin, fresh>>

SetCall ==
  /\ \E i \in RowArgs, j \in ColArgs, v \in Values :
       LET r == SetItem(Cur, i, j, v) IN
       /\ row_ptr' = r.mat.row_ptr
       /\ col_indx' = r.mat.col_indx
       /\ vals' = r.mat.vals
       /\ shape' = r.mat.shape
       /\ fresh' = FALSE
       /\ last' = [op |-> "set", row |-> i, col |-> j, value |-> v,
                   outcome |-> r.outcome, ret |-> 0]
       /\ UNCHANGED origin

Set ==
  /\ Len(vals) <= MaxNnz
  /\ SetCall

Next == Get \/ Set

Spec == Init /\ [][Next]_vars

\* The same operations from the matrices of one wider shape.
InitWide ==
  /\ \/ Install(Zeros(WideRows, WideCols)) /\ origin = "zeros"
     \/ /\ \E M \in Layouts(WideRows, WideCols, WideNnz) : Install(M)
        /\ origin = "new"
  /\ fresh = TRUE
  /\ last = NoCall

SetWide ==
  /\ Len(vals) <= WideNnz
  /\ SetCall

NextWide == Get \/ SetWide

SpecWide == InitWide /\ [][NextWide]_vars

----------------------------------------------------------------------------
\* Vocabulary of the properties

InBounds(i, j) == 0 <= i /\ i < shape[1] /\ 0 <= j /\ j < shape[2]

Called(op) == last.op = op
CalledInBounds(op) == last.op = op /\ InBounds(last.row, last.col)

\* The layout section 3 of the specification asks of every matrix: row_ptr
\* starts at 0, never decreases and ends at the number of stored columns;
\* every row's columns are strictly increasing and below cols.
CsrLayout(M) ==
  /\ Len(M.row_ptr) > M.shape[1]
  /\ At(M.row_ptr, 0) = 0
  /\ \A i \in 0..(M.shape[1] - 1) : At(M.row_ptr, i) <= At(M.row_ptr, i + 1)
  /\ At(M.row_ptr, M.shape[1]) = Len(M.col_indx)
  /\ RowsSorted(M)

\* row_ptr after one entry has been added to row m.
ShiftedAfter(rp, m) == [k \in 1..Len(rp) |-> IF k - 1 > m THEN rp[k] + 1 ELSE rp[k]]

----------------------------------------------------------------------------
\* C1: round trip.  On a matrix built by zeros, a set with in-bounds indices
\* succeeds and a get of the same position then returns the value written.
C1_RoundTrip ==
  (origin = "zeros" /\ CalledInBounds("set")) =>
    /\ last.outcome = "ok"
    /\ GetItem(Cur, last.row, last.col) = [outcome |-> "ok", ret |-> last.value]

C3_IndexErrorNoMutation ==
  [][ /\ (last'.op \in {"get", "set"} /\ ~InBounds(last'.row, last'.col))
         => last'.outcome = "IndexError"
      /\ last'.outcome = "IndexError" => mat' = mat ]_vars

\* C3 witness: a set on a matrix holding an entry was refused for a column
\* equal to cols, and a negative row is refused too.
C3_Witness ==
  /\ Called("set") /\ last.outcome = "IndexError"
  /\ last.row = 0 /\ last.col = shape[2] /\ shape[1] > 0
  /\ Len(vals) > 0
  /\ SetItem(Cur, -1, 0, 1).outcome = "IndexError"

\* C4: frame.  A successful set on a matrix with the CSR layout leaves the
\* value read at every other in-bounds position as it was.
C4_OtherPositionsKept ==
  [][ (last'.op = "set" /\ last'.outcome = "ok" /\ LayoutOk(Cur)) =>
        \A r \in 0..(shape[1] - 1), c \in 0..(shape[2] - 1) :
          <<r, c>> # <<last'.row, last'.col>> =>
            GetItem(Cur', r, c) = GetItem(Cur, r, c) ]_vars

\* C5: front-of-row insertion.  A set with in-bounds indices on a row that
\* stores no column <= col succeeds, puts the column and the value at the
\* row's starting offset and moves every later row boundary up by one.
C5_FrontInsert ==
  [][ ( /\ last'.op = "set" /\ InBounds(last'.row, last'.col)
        /\ LayoutOk(Cur)
        /\ RPosition(RowSlice(Cur, last'.row), last'.col) < 0 ) =>
      ( /\ last'.outcome = "ok"
        /\ col_indx' = VecInsert(col_indx, At(row_ptr, last'.row), last'.col)
        /\ vals' = VecInsert(vals, At(row_ptr, last'.row), last'.value)
        /\ row_ptr' = ShiftedAfter(row_ptr, last'.row) ) ]_vars

\* C6: on a matrix built by zeros, every get and every set with in-bounds
\* indices returns successfully: index errors are the only failures.
C6_InBoundsSucceeds ==
  (origin = "zeros" /\ last.op \in {"get", "set"}
     /\ InBounds(last.row, last.col)) => last.outcome = "ok"

\* C7: idempotent overwrite.  After set(row, col, v) on a matrix with the CSR
\* layout, the same set again leaves the lengths of col_indx and vals as the
\* first call left them.
C7_SecondSetSameLength ==
  [][ (last'.op = "set" /\ InBounds(last'.row, last'.col) /\ LayoutOk(Cur)) =>
        LET again == SetItem(Cur', last'.row, last'.col, last'.value).mat IN
        /\ Len(again.col_indx) = Len(col_indx')
        /\ Len(again.vals) = Len(vals') ]_vars

\* C8: zeros(m, n) builds row_ptr of m + 1 zeros with empty col_indx and
\* vals, and on that matrix every in-bounds get returns 0.0.
C8_ZerosReadsZero ==
  (origin = "zeros" /\ fresh) =>
    /\ Len(row_ptr) = shape[1] + 1
    /\ \A k \in 1..Len(row_ptr) : row_ptr[k] = 0
    /\ col_indx = <<>> /\ vals = <<>>
    /\ \A i \in 0..(shape[1] - 1), j \in 0..(shape[2] - 1) :
         GetItem(Cur, i, j) = [outcome |-> "ok", ret |-> 0]
    /\ CalledInBounds("get") => (last.outcome = "ok" /\ last.ret = 0)

\* C8 witness: a get with in-bounds indices has been answered on a fresh
\* zeros matrix of the largest shape.
C8_Witness ==
  /\ origin = "zeros" /\ fresh
  /\ shape = <<MaxRows, MaxCols>>
  /\ CalledInBounds("get") /\ last.row = MaxRows - 1 /\ last.col = MaxCols - 1
  /\ last.ret = 0

C10_RowPtrShift ==
  [][ ( /\ last'.op = "set" /\ last'.outcome = "ok"
        /\ LayoutOk(Cur)
        /\ Position(RowSlice(Cur, last'.row), last'.col) < 0 ) =>
      ( /\ Len(row_ptr') = shape[1] + 1
        /\ row_ptr' = ShiftedAfter(row_ptr, last'.row)
        /\ \A r \in (0..(shape[1] - 1)) \ {last'.row} :
             /\ ~RowSlicePanics(Cur', r)
             /\ RowSlice(Cur', r) = RowSlice(Cur, r) ) ]_vars

====
